---- MODULE Spec2Model ----
(***************************************************************************)
(* A model of cleo's Input (src/cleo/io/inputs/input.py): the binding and  *)
(* validation engine between a command's Definition and the values bound   *)
(* to its arguments and options, together with the stream gateway; and of  *)
(* CommandTester (src/cleo/testers/command_tester.py), the harness that    *)
(* runs a command against a fresh Input installed into a buffered IO.      *)
(*                                                                         *)
(* Python values are modelled by tokens: "None" is Python's None, "v" a    *)
(* caller supplied string, "dflt"/"odflt" declared defaults, "[]" the      *)
(* empty list and "False" the boolean false.  Text read from a stream is a *)
(* sequence of characters, wrapped so that None and "" stay distinct.      *)
(***************************************************************************)
EXTENDS Integers, Sequences, FiniteSets, TLC

VARIABLES
    _definition,    \* Input._definition: the Definition the Input refers to
    _arguments,     \* Input._arguments: name -> explicitly bound value (sparse)
    _options,       \* Input._options: name -> explicitly bound value (sparse)
    _interactive,   \* Input._interactive
    _stream,        \* Input._stream: None or a reference to a stream object
    streams,        \* the stream objects themselves: position and closed flag
    last,           \* the last call made on the Input and what it returned or raised
    _tokens,        \* the raw tokens a concrete Input (StringInput) keeps
    _command,       \* CommandTester._command: its name and its application
    _io,            \* CommandTester._io: the buffered IO (the Input above is its input)
    _status_code,   \* CommandTester._status_code
    run             \* the last call of CommandTester.execute and what it did

\* the fields of the Input and the streams
input == <<_definition, _arguments, _options, _interactive, _stream, streams, last>>
\* the raw tokens and the fields of the harness
harness == <<_tokens, _command, _io, _status_code, run>>

vars == <<_definition, _arguments, _options, _interactive, _stream, streams, last,
          _tokens, _command, _io, _status_code, run>>

-----------------------------------------------------------------------------
(* Bounds of the model *)

\* the longest sequence of setter calls a parse strategy makes in one bind
MaxParseSteps == 2
\* the largest length passed to read and read_line
MaxLength == 1

-----------------------------------------------------------------------------
(* Values and names *)

Names == {"x", "y", "z"}
\* values a caller passes to set_argument / set_option
Values == {"None", "v"}
\* values a parse strategy records: raw tokens are strings
ParseValues == {"v"}
\* the result slot of a call that raised
NoValue == "<raised>"
EmptyMap == [n \in {} |-> "None"]

PyNone == [isNone |-> TRUE, chars |-> <<>>]
PyStr(s) == [isNone |-> FALSE, chars |-> s]
\* `length: Optional[int] = None` of read_line
NoLength == -1
\* `self._stream = None`
NoStream == 0

-----------------------------------------------------------------------------
(* Definition: the catalog of Argument and Option specifications *)

ArgumentSpec(name, required, is_list, default) ==
    [name |-> name, required |-> required, is_list |-> is_list, default |-> default]

OptionSpec(name, accepts_value, default) ==
    [name |-> name, accepts_value |-> accepts_value, default |-> default]

Definition(args, opts) == [arguments |-> args, options |-> opts]

\* Definition(): what an Input constructed without a definition owns
EmptyDefinition == Definition(<<>>, <<>>)

\* required `x`, optional `y` with a default; the option `x` (valued) shares its
\* name with the argument `x`
GreetDefinition ==
    Definition(<<ArgumentSpec("x", TRUE, FALSE, "None"), ArgumentSpec("y", FALSE, FALSE, "dflt")>>,
               <<OptionSpec("x", TRUE, "odflt")>>)

\* three required arguments, declared in the order z, x, y; `x` declares a default
TripleDefinition ==
    Definition(<<ArgumentSpec("z", TRUE, FALSE, "None"), ArgumentSpec("x", TRUE, FALSE, "dflt"),
                 ArgumentSpec("y", TRUE, FALSE, "None")>>,
               <<>>)

\* one optional list argument and a flag option
ListDefinition ==
    Definition(<<ArgumentSpec("y", FALSE, TRUE, "[]")>>,
               <<OptionSpec("z", FALSE, "False")>>)

\* the definitions a caller binds an Input to
DefinitionSet == {GreetDefinition, TripleDefinition, ListDefinition}

ArgumentNames(d) == {d.arguments[i].name : i \in DOMAIN d.arguments}
OptionNames(d) == {d.options[i].name : i \in DOMAIN d.options}

has_argument(d, name) == \E i \in DOMAIN d.arguments : d.arguments[i].name = name
has_option(d, name) == \E i \in DOMAIN d.options : d.options[i].name = name

\* Definition.argument(name): the spec, or a LookupError when the name is absent
definition_argument(d, name) ==
    IF has_argument(d, name)
    THEN [outcome |-> "ok",
          spec |-> d.arguments[CHOOSE i \in DOMAIN d.arguments : d.arguments[i].name = name]]
    ELSE [outcome |-> "LookupError", spec |-> ArgumentSpec(name, FALSE, FALSE, NoValue)]

definition_option(d, name) ==
    IF has_option(d, name)
    THEN [outcome |-> "ok",
          spec |-> d.options[CHOOSE i \in DOMAIN d.options : d.options[i].name = name]]
    ELSE [outcome |-> "LookupError", spec |-> OptionSpec(name, FALSE, NoValue)]

is_required(argument) == argument.required

argument_defaults(d) ==
    [n \in ArgumentNames(d) |-> definition_argument(d, n).spec.default]
option_defaults(d) ==
    [n \in OptionNames(d) |-> definition_option(d, n).spec.default]

-----------------------------------------------------------------------------
(* Stream objects (io.StringIO, as the test harness attaches them) *)

StreamIds == {1, 2}
StreamContent(s) == IF s = 1 THEN <<"NL", "b">> ELSE <<>>

Min(a, b) == IF a < b THEN a ELSE b

\* the number of characters of the line that starts after position pos
RECURSIVE LineLength(_, _)
LineLength(content, pos) ==
    IF pos >= Len(content) THEN 0
    ELSE IF content[pos + 1] = "NL" THEN 1
    ELSE 1 + LineLength(content, pos + 1)

\* stream.read(length)
stream_read(st, content, length) ==
    IF st.closed
    THEN [outcome |-> "ValueError", data |-> PyNone, stream |-> st]
    ELSE LET n == IF length < 0 THEN Len(content) - st.pos
                  ELSE Min(length, Len(content) - st.pos)
         IN [outcome |-> "ok",
             data |-> PyStr(SubSeq(content, st.pos + 1, st.pos + n)),
             stream |-> [st EXCEPT !.pos = st.pos + n]]

\* stream.readline(length)
stream_readline(st, content, length) ==
    IF st.closed
    THEN [outcome |-> "ValueError", data |-> PyNone, stream |-> st]
    ELSE LET k == LineLength(content, st.pos)
             n == IF length < 0 THEN k ELSE Min(length, k)
         IN [outcome |-> "ok",
             data |-> PyStr(SubSeq(content, st.pos + 1, st.pos + n)),
             stream |-> [st EXCEPT !.pos = st.pos + n]]

\* stream.close()
stream_close(st) == [st EXCEPT !.closed = TRUE]

-----------------------------------------------------------------------------
(* Input: the operations as functions of the fields they read *)

\* a faulty merge, the defaults laid over the bound values:
\* {**_arguments, **argument_defaults}
arguments_defaults_win(d, args) ==
    [n \in DOMAIN argument_defaults(d) \cup DOMAIN args |->
        IF n \in DOMAIN argument_defaults(d) THEN argument_defaults(d)[n] ELSE args[n]]

\* Input.arguments: {**argument_defaults, **_arguments}
arguments(d, args) ==
    [n \in DOMAIN argument_defaults(d) \cup DOMAIN args |->
        IF n \in DOMAIN args THEN args[n] ELSE argument_defaults(d)[n]]

\* Input.options: {**option_defaults, **_options}
options(d, opts) ==
    [n \in DOMAIN option_defaults(d) \cup DOMAIN opts |->
        IF n \in DOMAIN opts THEN opts[n] ELSE option_defaults(d)[n]]

\* a faulty accessor with no fallback to the declared default:
\* `return self._arguments[name]`
argument_unbound_raises(d, args, name) ==
    IF ~has_argument(d, name)
    THEN [outcome |-> "ValueException", result |-> NoValue,
          message |-> <<"The argument \"", name, "\" does not exist">>]
    ELSE IF name \in DOMAIN args
    THEN [outcome |-> "ok", result |-> args[name], message |-> <<>>]
    ELSE [outcome |-> "KeyError", result |-> NoValue, message |-> <<>>]

\* Input.argument(name)
argument(d, args, name) ==
    IF ~has_argument(d, name)
    THEN [outcome |-> "ValueException", result |-> NoValue,
          message |-> <<"The argument \"", name, "\" does not exist">>]
    ELSE IF name \in DOMAIN args
    THEN [outcome |-> "ok", result |-> args[name], message |-> <<>>]
    ELSE LET a == definition_argument(d, name)
         IN IF a.outcome = "ok"
            THEN [outcome |-> "ok", result |-> a.spec.default, message |-> <<>>]
            ELSE [outcome |-> a.outcome, result |-> NoValue, message |-> <<>>]

\* a faulty setter that records undeclared names too (no existence check)
set_argument_unchecked(d, args, name, value) ==
    [outcome |-> "ok",
     arguments |-> [m \in DOMAIN args \cup {name} |-> IF m = name THEN value ELSE args[m]],
     message |-> <<>>]

\* a faulty setter that takes None for "unset" and drops the binding
set_argument_none_unsets(d, args, name, value) ==
    IF ~has_argument(d, name)
    THEN [outcome |-> "ValueException", arguments |-> args,
          message |-> <<"The argument \"", name, "\" does not exist">>]
    ELSE [outcome |-> "ok",
          arguments |-> IF value = "None"
                        THEN [m \in DOMAIN args \ {name} |-> args[m]]
                        ELSE [m \in DOMAIN args \cup {name} |->
                                 IF m = name THEN value ELSE args[m]],
          message |-> <<>>]

\* a faulty setter that keeps an earlier binding:
\* `self._arguments.setdefault(name, value)`
set_argument_keeps_first(d, args, name, value) ==
    IF ~has_argument(d, name)
    THEN [outcome |-> "ValueException", arguments |-> args,
          message |-> <<"The argument \"", name, "\" does not exist">>]
    ELSE [outcome |-> "ok",
          arguments |-> [m \in DOMAIN args \cup {name} |->
                            IF m \in DOMAIN args THEN args[m] ELSE value],
          message |-> <<>>]

\* Input.set_argument(name, value): the outcome and the new _arguments
set_argument(d, args, name, value) ==
    IF ~has_argument(d, name)
    THEN [outcome |-> "ValueException", arguments |-> args,
          message |-> <<"The argument \"", name, "\" does not exist">>]
    ELSE [outcome |-> "ok",
          arguments |-> [m \in DOMAIN args \cup {name} |->
                            IF m = name THEN value ELSE args[m]],
          message |-> <<>>]

\* a faulty accessor that takes a binding to None for no binding:
\* `self._options.get(name) or self._definition.option(name).default`
option_none_falls_back(d, opts, name) ==
    IF ~has_option(d, name)
    THEN [outcome |-> "ValueException", result |-> NoValue,
          message |-> <<"The option \"--", name, "\" does not exist">>]
    ELSE IF name \in DOMAIN opts /\ opts[name] # "None"
    THEN [outcome |-> "ok", result |-> opts[name], message |-> <<>>]
    ELSE [outcome |-> "ok", result |-> definition_option(d, name).spec.default,
          message |-> <<>>]

\* Input.option(name)
option(d, opts, name) ==
    IF ~has_option(d, name)
    THEN [outcome |-> "ValueException", result |-> NoValue,
          message |-> <<"The option \"--", name, "\" does not exist">>]
    ELSE IF name \in DOMAIN opts
    THEN [outcome |-> "ok", result |-> opts[name], message |-> <<>>]
    ELSE LET o == definition_option(d, name)
         IN IF o.outcome = "ok"
            THEN [outcome |-> "ok", result |-> o.spec.default, message |-> <<>>]
            ELSE [outcome |-> o.outcome, result |-> NoValue, message |-> <<>>]

\* Input.set_option(name, value): the outcome and the new _options
set_option(d, opts, name, value) ==
    IF ~has_option(d, name)
    THEN [outcome |-> "ValueException", options |-> opts,
          message |-> <<"The option \"--", name, "\" does not exist">>]
    ELSE [outcome |-> "ok",
          options |-> [m \in DOMAIN opts \cup {name} |->
                          IF m = name THEN value ELSE opts[m]],
          message |-> <<>>]

\* ", ".join(names)
RECURSIVE Join(_, _)
Join(names, sep) ==
    IF Len(names) = 0 THEN <<>>
    ELSE IF Len(names) = 1 THEN <<names[1]>>
    ELSE <<names[1], sep>> \o Join(Tail(names), sep)

\* a faulty loop that takes an argument for missing when its effective value
\* is None: `if self.argument(argument.name) is None and argument.is_required()`
RECURSIVE missing_arguments_by_value(_, _, _)
missing_arguments_by_value(d, args, i) ==
    IF i > Len(d.arguments) THEN <<>>
    ELSE LET a == d.arguments[i]
         IN (IF argument(d, args, a.name).result = "None" /\ is_required(a)
             THEN <<a.name>> ELSE <<>>)
            \o missing_arguments_by_value(d, args, i + 1)

\* the loop of Input.validate from the i-th declared argument on
RECURSIVE missing_arguments(_, _, _)
missing_arguments(d, args, i) ==
    IF i > Len(d.arguments) THEN <<>>
    ELSE LET a == d.arguments[i]
         IN (IF a.name \notin DOMAIN args /\ is_required(a) THEN <<a.name>> ELSE <<>>)
            \o missing_arguments(d, args, i + 1)

\* a faulty validate that raises on the first missing argument
validate_fail_fast(d, args) ==
    LET missing == missing_arguments(d, args, 1)
    IN IF Len(missing) > 0
       THEN [outcome |-> "RuntimeException",
             message |-> <<"Not enough arguments (missing: \"">>
                         \o Join(<<Head(missing)>>, ", ") \o <<"\")">>]
       ELSE [outcome |-> "ok", message |-> <<>>]

\* Input.validate()
validate(d, args) ==
    LET missing == missing_arguments(d, args, 1)
    IN IF Len(missing) > 0
       THEN [outcome |-> "RuntimeException",
             message |-> <<"Not enough arguments (missing: \"">>
                         \o Join(missing, ", ") \o <<"\")">>]
       ELSE [outcome |-> "ok", message |-> <<>>]

-----------------------------------------------------------------------------
(* The parse strategy: a sequence of setter calls made from the raw tokens *)

ParseStep(kind, name, value) == [kind |-> kind, name |-> name, value |-> value]
\* `x` is an argument of GreetDefinition and TripleDefinition but not of
\* ListDefinition, and an option only of GreetDefinition
ParseSteps ==
    {ParseStep(k, "x", v) : k \in {"argument", "option"}, v \in ParseValues}

RECURSIVE SeqsUpTo(_, _)
SeqsUpTo(S, n) ==
    IF n = 0 THEN {<<>>}
    ELSE LET shorter == SeqsUpTo(S, n - 1)
         IN shorter \cup {Append(p, s) : p \in {q \in shorter : Len(q) = n - 1}, s \in S}

ParsePlans == SeqsUpTo(ParseSteps, MaxParseSteps)

\* Input._parse(): the setter calls in order, stopping at the first that raises
RECURSIVE _parse(_, _, _, _)
_parse(d, args, opts, plan) ==
    IF Len(plan) = 0
    THEN [outcome |-> "ok", arguments |-> args, options |-> opts, message |-> <<>>]
    ELSE LET step == Head(plan)
         IN IF step.kind = "argument"
            THEN LET r == set_argument(d, args, step.name, step.value)
                 IN IF r.outcome = "ok"
                    THEN _parse(d, r.arguments, opts, Tail(plan))
                    ELSE [outcome |-> r.outcome, arguments |-> r.arguments,
                          options |-> opts, message |-> r.message]
            ELSE LET r == set_option(d, opts, step.name, step.value)
                 IN IF r.outcome = "ok"
                    THEN _parse(d, args, r.options, Tail(plan))
                    ELSE [outcome |-> r.outcome, arguments |-> args,
                          options |-> r.options, message |-> r.message]

\* a faulty bind that forgets `self._options = {}`
bind_keeps_options(args, opts, definition, plan) ==
    LET reset_arguments == EmptyMap
        parsed == _parse(definition, reset_arguments, opts, plan)
    IN [outcome |-> parsed.outcome, definition |-> definition,
        arguments |-> parsed.arguments, options |-> parsed.options,
        message |-> parsed.message]

\* a faulty bind that puts the previous bindings back when the parse raises
bind_restores_bindings(args, opts, definition, plan) ==
    LET parsed == _parse(definition, EmptyMap, EmptyMap, plan)
    IN [outcome |-> parsed.outcome, definition |-> definition,
        arguments |-> IF parsed.outcome = "ok" THEN parsed.arguments ELSE args,
        options |-> IF parsed.outcome = "ok" THEN parsed.options ELSE opts,
        message |-> parsed.message]

\* Input.bind(definition): reset both maps, store the definition, parse
bind(args, opts, definition, plan) ==
    LET reset_arguments == EmptyMap
        reset_options == EmptyMap
        parsed == _parse(definition, reset_arguments, reset_options, plan)
    IN [outcome |-> parsed.outcome, definition |-> definition,
        arguments |-> parsed.arguments, options |-> parsed.options,
        message |-> parsed.message]

\* a faulty read that consults the stream before the interactivity toggle
read_stream_first(interactive, stream, strs, length, default) ==
    IF stream = NoStream
    THEN [outcome |-> "AttributeError", data |-> PyNone, streams |-> strs]
    ELSE LET r == stream_read(strs[stream], StreamContent(stream), length)
         IN [outcome |-> r.outcome,
             data |-> IF r.outcome = "ok" /\ ~interactive THEN default ELSE r.data,
             streams |-> [strs EXCEPT ![stream] = r.stream]]

\* Input.read(length, default)
read(interactive, stream, strs, length, default) ==
    IF ~interactive
    THEN [outcome |-> "ok", data |-> default, streams |-> strs]
    ELSE IF stream = NoStream
    THEN [outcome |-> "AttributeError", data |-> PyNone, streams |-> strs]
    ELSE LET r == stream_read(strs[stream], StreamContent(stream), length)
         IN [outcome |-> r.outcome, data |-> r.data,
             streams |-> [strs EXCEPT ![stream] = r.stream]]

\* Input.read_line(length, default)
read_line(interactive, stream, strs, length, default) ==
    IF ~interactive
    THEN [outcome |-> "ok", data |-> default, streams |-> strs]
    ELSE IF stream = NoStream
    THEN [outcome |-> "AttributeError", data |-> PyNone, streams |-> strs]
    ELSE LET r == stream_readline(strs[stream], StreamContent(stream), length)
         IN [outcome |-> r.outcome, data |-> r.data,
             streams |-> [strs EXCEPT ![stream] = r.stream]]

\* Input.close()
close(stream, strs) ==
    IF stream = NoStream
    THEN [outcome |-> "AttributeError", streams |-> strs]
    ELSE [outcome |-> "ok", streams |-> [strs EXCEPT ![stream] = stream_close(strs[stream])]]

\* Input.is_closed(): `self._stream.is_closed()`.  None has no such method,
\* and neither has a TextIO such as io.StringIO (it has the attribute `closed`),
\* so the call raises either way and leaves the stream alone
is_closed(stream, strs) ==
    [outcome |-> "AttributeError", result |-> NoValue, streams |-> strs]

-----------------------------------------------------------------------------
(* The record of a call: what was asked and what came back *)

Call(op) ==
    [op |-> op, name |-> "", value |-> "", outcome |-> "ok", result |-> "",
     message |-> <<>>, definition |-> EmptyDefinition, plan |-> <<>>,
     length |-> 0, default |-> PyNone, data |-> PyNone, view |-> EmptyMap]

Lengths == 1..MaxLength
Defaults == {PyNone, PyStr(<<"X">>)}
FreshStream == [pos |-> 0, closed |-> FALSE]

\* `self._status_code = None`
NoStatus == -1
\* BufferedIO(): normal verbosity, not decorated, nothing written yet
FreshIO == [verbosity |-> "NORMAL", decorated |-> FALSE, output |-> <<>>]
\* no call of execute yet
NoRun ==
    [op |-> "", args |-> <<>>, inputs |-> NoStream, interactive |-> "None",
     verbosity |-> "None", decorated |-> "None", calls |-> <<>>,
     outcome |-> "ok", command_returned |-> NoStatus, returned |-> NoStatus]
\* a command that belongs to no application
LoneCommand == [name |-> "cmd", has_application |-> FALSE, application |-> EmptyDefinition]

\* an Input on its own: no raw tokens, no harness around it
HarnessIdle ==
    /\ _tokens = <<>>
    /\ _command = LoneCommand
    /\ _io = FreshIO
    /\ _status_code = NoStatus
    /\ run = NoRun

\* a faulty constructor that binds and never validates
__init___without_validate(given, definition, plan) ==
    IF ~given
    THEN [outcome |-> "ok", definition |-> EmptyDefinition,
          arguments |-> EmptyMap, options |-> EmptyMap, message |-> <<>>]
    ELSE bind(EmptyMap, EmptyMap, definition, plan)

\* Input.__init__(definition): the fields it leaves and how it ended;
\* `given` is FALSE for `definition is None`
__init__(given, definition, plan) ==
    IF ~given
    THEN [outcome |-> "ok", definition |-> EmptyDefinition,
          arguments |-> EmptyMap, options |-> EmptyMap, message |-> <<>>]
    ELSE LET b == bind(EmptyMap, EmptyMap, definition, plan)
             v == validate(b.definition, b.arguments)
         IN IF b.outcome # "ok" THEN b
            ELSE [b EXCEPT !.outcome = v.outcome, !.message = v.message]

\* an Input whose construction raised is never handed to a caller
Constructed == ~(last.op = "__init__" /\ last.outcome # "ok")

Init ==
    \E given \in BOOLEAN, d \in DefinitionSet \cup {EmptyDefinition}, plan \in ParsePlans :
        /\ given \/ (d = EmptyDefinition /\ plan = <<>>)
        /\ LET r == __init__(given, d, plan)
           IN /\ _definition = r.definition
              /\ _arguments = r.arguments
              /\ _options = r.options
              /\ last = [Call("__init__") EXCEPT !.outcome = r.outcome,
                            !.message = r.message,
                            !.value = IF given THEN "Definition" ELSE "None",
                            !.definition = IF given THEN d ELSE EmptyDefinition,
                            !.plan = plan]
        /\ _interactive = TRUE
        /\ _stream = NoStream
        /\ streams = [s \in StreamIds |-> FreshStream]
        /\ HarnessIdle

-----------------------------------------------------------------------------
(* The operations of an Input *)

\* the `arguments` property
Arguments ==
    /\ Constructed
    /\ UNCHANGED harness
    /\ last' = [Call("arguments") EXCEPT !.view = arguments(_definition, _arguments)]
    /\ UNCHANGED <<_definition, _arguments, _options, _interactive, _stream, streams>>

\* the `options` property
Options ==
    /\ Constructed
    /\ UNCHANGED harness
    /\ last' = [Call("options") EXCEPT !.view = options(_definition, _options)]
    /\ UNCHANGED <<_definition, _arguments, _options, _interactive, _stream, streams>>

Read ==
    /\ Constructed
    /\ UNCHANGED harness
    /\ \E length \in Lengths, default \in Defaults :
          LET r == read(_interactive, _stream, streams, length, default)
          IN /\ streams' = r.streams
             /\ last' = [Call("read") EXCEPT !.length = length, !.default = default,
                            !.outcome = r.outcome, !.data = r.data]
    /\ UNCHANGED <<_definition, _arguments, _options, _interactive, _stream>>

ReadLine ==
    /\ Constructed
    /\ UNCHANGED harness
    /\ \E length \in Lengths \cup {NoLength}, default \in Defaults :
          LET r == read_line(_interactive, _stream, streams, length, default)
          IN /\ streams' = r.streams
             /\ last' = [Call("read_line") EXCEPT !.length = length, !.default = default,
                            !.outcome = r.outcome, !.data = r.data]
    /\ UNCHANGED <<_definition, _arguments, _options, _interactive, _stream>>

Close ==
    /\ Constructed
    /\ UNCHANGED harness
    /\ LET r == close(_stream, streams)
       IN /\ streams' = r.streams
          /\ last' = [Call("close") EXCEPT !.outcome = r.outcome]
    /\ UNCHANGED <<_definition, _arguments, _options, _interactive, _stream>>

IsClosed ==
    /\ Constructed
    /\ UNCHANGED harness
    /\ LET r == is_closed(_stream, streams)
       IN /\ streams' = r.streams
          /\ last' = [Call("is_closed") EXCEPT !.outcome = r.outcome, !.result = r.result]
    /\ UNCHANGED <<_definition, _arguments, _options, _interactive, _stream>>

Interactive ==
    /\ Constructed
    /\ UNCHANGED harness
    /\ \E interactive \in BOOLEAN :
          /\ _interactive' = interactive
          /\ last' = [Call("interactive") EXCEPT
                         !.value = IF interactive THEN "True" ELSE "False"]
    /\ UNCHANGED <<_definition, _arguments, _options, _stream, streams>>

\* a faulty set_stream that closes the stream it replaces
SetStreamClosesOld ==
    /\ Constructed
    /\ UNCHANGED harness
    /\ \E stream \in StreamIds :
          /\ _stream' = stream
          /\ streams' = IF _stream = NoStream THEN streams
                        ELSE [streams EXCEPT ![_stream] = stream_close(streams[_stream])]
          /\ last' = [Call("set_stream") EXCEPT !.length = stream]
    /\ UNCHANGED <<_definition, _arguments, _options, _interactive>>

\* a faulty bind that also switches the Input back to interactive
BindResetsInteractive ==
    /\ Constructed
    /\ UNCHANGED harness
    /\ \E definition \in DefinitionSet, plan \in ParsePlans :
          LET r == bind(_arguments, _options, definition, plan)
          IN /\ _definition' = r.definition
             /\ _arguments' = r.arguments
             /\ _options' = r.options
             /\ last' = [Call("bind") EXCEPT !.definition = definition, !.plan = plan,
                            !.outcome = r.outcome, !.message = r.message]
    /\ _interactive' = TRUE
    /\ UNCHANGED <<_stream, streams>>

SetStream ==
    /\ Constructed
    /\ UNCHANGED harness
    /\ \E stream \in StreamIds :
          /\ _stream' = stream
          /\ last' = [Call("set_stream") EXCEPT !.length = stream]
    /\ UNCHANGED <<_definition, _arguments, _options, _interactive, streams>>

Bind ==
    /\ Constructed
    /\ UNCHANGED harness
    /\ \E definition \in DefinitionSet, plan \in ParsePlans :
          LET r == bind(_arguments, _options, definition, plan)
          IN /\ _definition' = r.definition
             /\ _arguments' = r.arguments
             /\ _options' = r.options
             /\ last' = [Call("bind") EXCEPT !.definition = definition, !.plan = plan,
                            !.outcome = r.outcome, !.message = r.message]
    /\ UNCHANGED <<_interactive, _stream, streams>>

\* a faulty validate that stores the defaults of the unbound arguments
ValidateBindsDefaults ==
    /\ Constructed
    /\ UNCHANGED harness
    /\ LET r == validate(_definition, _arguments)
       IN last' = [Call("validate") EXCEPT !.outcome = r.outcome, !.message = r.message]
    /\ _arguments' = arguments(_definition, _arguments)
    /\ UNCHANGED <<_definition, _options, _interactive, _stream, streams>>

Validate ==
    /\ Constructed
    /\ UNCHANGED harness
    /\ LET r == validate(_definition, _arguments)
       IN last' = [Call("validate") EXCEPT !.outcome = r.outcome, !.message = r.message]
    /\ UNCHANGED <<_definition, _arguments, _options, _interactive, _stream, streams>>

GetArgument ==
    /\ Constructed
    /\ UNCHANGED harness
    /\ \E name \in Names :
          LET r == argument(_definition, _arguments, name)
          IN last' = [Call("argument") EXCEPT !.name = name, !.outcome = r.outcome,
                         !.result = r.result, !.message = r.message]
    /\ UNCHANGED <<_definition, _arguments, _options, _interactive, _stream, streams>>

SetArgument ==
    /\ Constructed
    /\ UNCHANGED harness
    /\ \E name \in Names, value \in Values :
          LET r == set_argument(_definition, _arguments, name, value)
          IN /\ _arguments' = r.arguments
             /\ last' = [Call("set_argument") EXCEPT !.name = name, !.value = value,
                            !.outcome = r.outcome, !.message = r.message]
    /\ UNCHANGED <<_definition, _options, _interactive, _stream, streams>>

GetOption ==
    /\ Constructed
    /\ UNCHANGED harness
    /\ \E name \in Names :
          LET r == option(_definition, _options, name)
          IN last' = [Call("option") EXCEPT !.name = name, !.outcome = r.outcome,
                         !.result = r.result, !.message = r.message]
    /\ UNCHANGED <<_definition, _arguments, _options, _interactive, _stream, streams>>

\* a faulty set_option that writes into the arguments: `self._arguments[name] = value`
SetOptionWritesArguments ==
    /\ Constructed
    /\ UNCHANGED harness
    /\ \E name \in Names, value \in Values :
          LET r == set_option(_definition, _arguments, name, value)
          IN /\ _arguments' = r.options
             /\ last' = [Call("set_option") EXCEPT !.name = name, !.value = value,
                            !.outcome = r.outcome, !.message = r.message]
    /\ UNCHANGED <<_definition, _options, _interactive, _stream, streams>>

SetOption ==
    /\ Constructed
    /\ UNCHANGED harness
    /\ \E name \in Names, value \in Values :
          LET r == set_option(_definition, _options, name, value)
          IN /\ _options' = r.options
             /\ last' = [Call("set_option") EXCEPT !.name = name, !.value = value,
                            !.outcome = r.outcome, !.message = r.message]
    /\ UNCHANGED <<_definition, _arguments, _interactive, _stream, streams>>

Next ==
    \/ Arguments
    \/ Options
    \/ Read
    \/ ReadLine
    \/ Close
    \/ IsClosed
    \/ Interactive
    \/ SetStream
    \/ Bind
    \/ Validate
    \/ GetArgument
    \/ SetArgument
    \/ GetOption
    \/ SetOption

Spec == Init /\ [][Next]_vars

-----------------------------------------------------------------------------
(* CommandTester: one harness around one command and one BufferedIO *)

MaxOutput == 2

\* a command registered in an application whose definition has the argument
\* `command`, and one in an application whose definition has none
NamedCommand ==
    [name |-> "cmd", has_application |-> TRUE,
     application |-> Definition(<<ArgumentSpec("command", TRUE, FALSE, "None")>>, <<>>)]
BareCommand == [name |-> "cmd", has_application |-> TRUE, application |-> EmptyDefinition]
Commands == {LoneCommand, NamedCommand, BareCommand}

\* argument strings, a sequence of words and " " separators
ArgStrings == {<<>>, <<"x", " ", "-h">>}
\* what the parameters of execute range over; "None" is the absent parameter
InputsGiven == {NoStream, 1}
Overrides == {"None", "True", "False"}
Verbosities == {"None", "VERBOSE"}
\* how Command.run ends: it returns a status or it raises
RunResults ==
    {[outcome |-> "ok", status |-> c] : c \in {0, 1}}
        \cup {[outcome |-> "raised", status |-> NoStatus]}

\* the raw tokens of StringInput(args): the words between the separators
RECURSIVE Tokenize(_)
Tokenize(s) ==
    IF s = <<>> THEN <<>>
    ELSE IF Head(s) = " " THEN Tokenize(Tail(s))
    ELSE <<Head(s)>> \o Tokenize(Tail(s))

\* StringInput(args): Input.__init__ without a definition, and the tokens
StringInput(args) ==
    LET made == __init__(FALSE, EmptyDefinition, <<>>)
    IN [tokens |-> Tokenize(args), definition |-> made.definition,
        arguments |-> made.arguments, options |-> made.options,
        interactive |-> TRUE, stream |-> NoStream,
        last |-> [Call("__init__") EXCEPT !.value = "None"]]

\* one entry of the order in which execute calls its collaborators
Called(call, arg) == [call |-> call, arg |-> arg]

\* the BufferedIO operations execute uses, on the harness as it stands in the
\* middle of a call: e.io, e.input (the installed Input), e.streams, e.calls
io_set_input(e, fresh) ==
    [e EXCEPT !.input = fresh, !.calls = Append(@, Called("set_input", "StringInput"))]
\* `self._io.input.set_stream(StringIO(inputs))`: a stream opened on `inputs`
io_input_set_stream(e, inputs) ==
    [e EXCEPT !.streams[inputs] = FreshStream,
              !.input.stream = inputs,
              !.input.last = [Call("set_stream") EXCEPT !.length = inputs],
              !.calls = Append(@, Called("set_stream", "StringIO"))]
\* IO.interactive(flag) hands the flag to its Input
io_interactive(e, flag) ==
    [e EXCEPT !.input.interactive = (flag = "True"),
              !.input.last = [Call("interactive") EXCEPT !.value = flag],
              !.calls = Append(@, Called("interactive", flag))]
io_set_verbosity(e, level) ==
    [e EXCEPT !.io.verbosity = level, !.calls = Append(@, Called("set_verbosity", level))]
io_decorated(e, flag) ==
    [e EXCEPT !.io.decorated = (flag = "True"),
              !.calls = Append(@, Called("decorated", flag))]

\* `args = self._command.name + " " + args` under the condition of line 41
prefixed(command, args) ==
    IF command.has_application /\ has_argument(command.application, "command")
    THEN <<command.name, " ">> \o args
    ELSE args

\* `x is not None`
is_not_None(x) == x # "None"

\* lines 47-48: `if inputs is not None: self._io.input.set_stream(StringIO(inputs))`
set_stream_if_given(e, inputs) ==
    IF inputs # NoStream THEN io_input_set_stream(e, inputs) ELSE e

\* a faulty line 50, `if interactive:`
interactive_if_truthy(e, flag) ==
    IF flag \notin {"None", "False"} THEN io_interactive(e, flag) ELSE e

\* lines 50-51: `if interactive is not None: self._io.interactive(interactive)`
interactive_if_given(e, flag) ==
    IF is_not_None(flag) THEN io_interactive(e, flag) ELSE e

\* lines 53-54: `if verbosity is not None: self._io.set_verbosity(verbosity)`
set_verbosity_if_given(e, level) ==
    IF is_not_None(level) THEN io_set_verbosity(e, level) ELSE e

\* lines 56-57: `if decorated is not None: self._io.decorated(decorated)`
decorated_if_given(e, flag) ==
    IF is_not_None(flag) THEN io_decorated(e, flag) ELSE e

\* a faulty last step that forgets the status of the call before:
\* `self._status_code = None` ahead of the run
run_command_clears_status(e, status_code, ran) ==
    [input |-> e.input, streams |-> e.streams,
     io |-> [e.io EXCEPT !.output = Append(@, "out")],
     calls |-> Append(e.calls, Called("run", "io")),
     outcome |-> ran.outcome,
     command_returned |-> ran.status,
     status_code |-> ran.status,
     returned |-> ran.status]

\* `self._status_code = self._command.run(self._io)` and `return self._status_code`:
\* when run raises, neither the assignment nor the return happens
run_command(e, status_code, ran) ==
    [input |-> e.input, streams |-> e.streams,
     io |-> [e.io EXCEPT !.output = Append(@, "out")],
     calls |-> Append(e.calls, Called("run", "io")),
     outcome |-> ran.outcome,
     command_returned |-> ran.status,
     status_code |-> IF ran.outcome = "ok" THEN ran.status ELSE status_code,
     returned |-> IF ran.outcome = "ok" THEN ran.status ELSE NoStatus]

\* CommandTester.execute(args, inputs, interactive, verbosity, decorated),
\* statement by statement; `ran` is how the command's run ends
execute(command, io, installed, strs, status_code, args, inputs, interactive, verbosity, decorated, ran) ==
    LET e0 == [io |-> io, input |-> installed, streams |-> strs, calls |-> <<>>]
        e1 == io_set_input(e0, StringInput(prefixed(command, args)))
        e2 == set_stream_if_given(e1, inputs)
        e3 == interactive_if_given(e2, interactive)
        e4 == set_verbosity_if_given(e3, verbosity)
        e5 == decorated_if_given(e4, decorated)
    IN run_command(e5, status_code, ran)

\* CommandTester(command): the BufferedIO starts with an Input of its own
TesterInit ==
    /\ LET fresh == StringInput(<<>>)
       IN /\ _definition = fresh.definition
          /\ _arguments = fresh.arguments
          /\ _options = fresh.options
          /\ _interactive = fresh.interactive
          /\ _stream = fresh.stream
          /\ last = fresh.last
          /\ _tokens = fresh.tokens
    /\ streams = [s \in StreamIds |-> FreshStream]
    /\ _command \in Commands
    /\ _io = FreshIO
    /\ _status_code = NoStatus
    /\ run = NoRun

Execute ==
    /\ Len(_io.output) < MaxOutput
    /\ \E args \in ArgStrings, inputs \in InputsGiven, interactive \in Overrides,
          verbosity \in Verbosities, decorated \in Overrides, ran \in RunResults :
          LET installed == [tokens |-> _tokens, definition |-> _definition,
                            arguments |-> _arguments, options |-> _options,
                            interactive |-> _interactive, stream |-> _stream,
                            last |-> last]
          IN \E r \in {execute(_command, _io, installed, streams, _status_code, args,
                               inputs, interactive, verbosity, decorated, ran)} :
                /\ _tokens' = r.input.tokens
                /\ _definition' = r.input.definition
                /\ _arguments' = r.input.arguments
                /\ _options' = r.input.options
                /\ _interactive' = r.input.interactive
                /\ _stream' = r.input.stream
                /\ last' = r.input.last
                /\ streams' = r.streams
                /\ _io' = r.io
                /\ _status_code' = r.status_code
                /\ run' = [op |-> "execute", args |-> args, inputs |-> inputs,
                           interactive |-> interactive, verbosity |-> verbosity,
                           decorated |-> decorated, calls |-> r.calls,
                           outcome |-> r.outcome,
                           command_returned |-> r.command_returned,
                           returned |-> r.returned]
    /\ UNCHANGED _command

\* the `status_code` property
StatusCode ==
    /\ run' = [run EXCEPT !.op = "status_code", !.returned = _status_code]
    /\ UNCHANGED <<input, _tokens, _command, _io, _status_code>>

TesterNext ==
    \/ Execute
    \/ StatusCode

SpecTester == TesterInit /\ [][TesterNext]_vars

-----------------------------------------------------------------------------
(* The raw-token queries of a concrete Input, over the tokens it was given *)

MaxTokens == 2

\* a token is a word, or NAME = VALUE in three parts
RawTokens == {<<"cmd">>, <<"-h">>, <<"--">>, <<"--x">>, <<"--x", "=", "v">>}
RawTokenSeqs == SeqsUpTo(RawTokens, MaxTokens)
\* the `values` of a query: one name, or a list of aliases
AliasLists == {<<"--help", "-h">>, <<"--x">>}

\* the scan of both option queries from the i-th token on: the place of the
\* first token that is one of `values`, alone or as NAME=VALUE; 0 when there
\* is none, or none before the `--` that ends the scan under only_params
RECURSIVE scan(_, _, _, _)
scan(tokens, values, only_params, i) ==
    IF i > Len(tokens) THEN 0
    ELSE IF only_params /\ tokens[i] = <<"--">> THEN 0
    ELSE IF \E k \in DOMAIN values : Head(tokens[i]) = values[k] THEN i
    ELSE scan(tokens, values, only_params, i + 1)

\* Input.has_parameter_option as input.py has it: `raise NotImplementedError()`
has_parameter_option_abstract(tokens, values, only_params) ==
    [outcome |-> "NotImplementedError", result |-> NoValue]

\* has_parameter_option(values, only_params) of a concrete Input
has_parameter_option(tokens, values, only_params) ==
    [outcome |-> "ok",
     result |-> IF scan(tokens, values, only_params, 1) # 0 THEN "True" ELSE "False"]

\* parameter_option(values, only_params, default) of a concrete Input: the
\* text after `=`, else the token that follows, else nothing; `default`
\* when no token matches
parameter_option(tokens, values, only_params, default) ==
    LET i == scan(tokens, values, only_params, 1)
    IN [outcome |-> "ok",
        result |-> IF i = 0 THEN default
                   ELSE IF Len(tokens[i]) > 1
                   THEN PyStr(SubSeq(tokens[i], 3, Len(tokens[i])))
                   ELSE IF i < Len(tokens) THEN PyStr(tokens[i + 1])
                   ELSE PyNone]

\* a token that is an option or the end-of-options marker
IsOptionToken(t) == Head(t) \in {"-h", "--help", "--x", "--"}

\* first_argument of a concrete Input: the first token that is no option
first_argument(tokens) ==
    LET words == SelectSeq(tokens, LAMBDA t : ~IsOptionToken(t))
    IN [outcome |-> "ok",
        result |-> IF words = <<>> THEN PyNone ELSE PyStr(Head(words))]

\* script_name of a concrete Input made from tokens: it has none
script_name(tokens) == [outcome |-> "ok", result |-> PyNone]

\* a concrete Input constructed over raw tokens, without a definition
RawInit ==
    /\ LET fresh == StringInput(<<>>)
       IN /\ _definition = fresh.definition
          /\ _arguments = fresh.arguments
          /\ _options = fresh.options
          /\ _interactive = fresh.interactive
          /\ _stream = fresh.stream
          /\ last = fresh.last
    /\ streams = [s \in StreamIds |-> FreshStream]
    /\ _tokens \in RawTokenSeqs
    /\ _command = LoneCommand
    /\ _io = FreshIO
    /\ _status_code = NoStatus
    /\ run = NoRun

HasParameterOption ==
    /\ \E values \in AliasLists, only_params \in BOOLEAN :
          LET r == has_parameter_option(_tokens, values, only_params)
          IN last' = [Call("has_parameter_option") EXCEPT
                         !.message = values,
                         !.value = IF only_params THEN "True" ELSE "False",
                         !.outcome = r.outcome, !.result = r.result]
    /\ UNCHANGED <<_definition, _arguments, _options, _interactive, _stream, streams>>
    /\ UNCHANGED harness

ParameterOption ==
    /\ \E values \in AliasLists, only_params \in BOOLEAN, default \in Defaults :
          LET r == parameter_option(_tokens, values, only_params, default)
          IN last' = [Call("parameter_option") EXCEPT
                         !.message = values,
                         !.value = IF only_params THEN "True" ELSE "False",
                         !.default = default,
                         !.outcome = r.outcome, !.data = r.result]
    /\ UNCHANGED <<_definition, _arguments, _options, _interactive, _stream, streams>>
    /\ UNCHANGED harness

FirstArgument ==
    /\ LET r == first_argument(_tokens)
       IN last' = [Call("first_argument") EXCEPT !.outcome = r.outcome, !.data = r.result]
    /\ UNCHANGED <<_definition, _arguments, _options, _interactive, _stream, streams>>
    /\ UNCHANGED harness

ScriptName ==
    /\ LET r == script_name(_tokens)
       IN last' = [Call("script_name") EXCEPT !.outcome = r.outcome, !.data = r.result]
    /\ UNCHANGED <<_definition, _arguments, _options, _interactive, _stream, streams>>
    /\ UNCHANGED harness

RawNext ==
    \/ HasParameterOption
    \/ ParameterOption
    \/ FirstArgument
    \/ ScriptName
    \/ Bind
    \/ Validate

SpecRaw == RawInit /\ [][RawNext]_vars

-----------------------------------------------------------------------------
(* Properties *)

RequiredUnbound(d, args) ==
    {d.arguments[i].name : i \in {j \in DOMAIN d.arguments :
        d.arguments[j].required /\ d.arguments[j].name \notin DOMAIN args}}

DeclarationIndex(d, name) ==
    CHOOSE i \in DOMAIN d.arguments : d.arguments[i].name = name

\* the names a validation message lists, separators dropped
ListedNames(message) ==
    LET IsName(t) == t # ", "
    IN SelectSeq(SubSeq(message, 2, Len(message) - 1), IsName)

\* C1: in every state reached by bind / set_argument / set_option / validate /
\* interactive (and the other operations), argument(n) returns a value without
\* failing exactly when the Definition has an argument n, and otherwise fails
\* with the unknown-name error and returns nothing; the same is seen on every
\* call of argument(n) actually made.
C1_ArgumentFailsIffUndeclared ==
    /\ \A n \in Names :
          LET r == argument(_definition, _arguments, n)
          IN IF has_argument(_definition, n)
             THEN r.outcome = "ok" /\ r.result # NoValue
             ELSE r.outcome = "ValueException" /\ r.result = NoValue
    /\ last.op = "argument" =>
          IF has_argument(_definition, last.name)
          THEN last.outcome = "ok" /\ last.result # NoValue
          ELSE last.outcome = "ValueException" /\ last.result = NoValue

\* argument(n) was called for a declared name that is not bound, after a bind
\* and a setter call had run
C1_Witness ==
    /\ last.op = "argument" /\ last.outcome = "ok"
    /\ has_argument(_definition, last.name)
    /\ last.name \notin DOMAIN _arguments
    /\ _arguments # EmptyMap

\* C2: right after a successful set_argument(x, v), argument(x) returns v
\* whatever the declared default of x (also for v = None), and no step other
\* than a bind or a set_argument on x changes what argument(x) returns for a
\* bound x.
C2_SetArgumentTakesPrecedence ==
    /\ [](last.op = "set_argument" /\ last.outcome = "ok" =>
            LET r == argument(_definition, _arguments, last.name)
            IN r.outcome = "ok" /\ r.result = last.value)
    /\ [][\A n \in DOMAIN _arguments :
            (last'.op # "bind" /\ ~(last'.op = "set_argument" /\ last'.name = n)) =>
                argument(_definition', _arguments', n) = argument(_definition, _arguments, n)]_vars

\* set_argument bound None to an argument whose declared default is not None
C2_Witness ==
    /\ last.op = "set_argument" /\ last.outcome = "ok" /\ last.value = "None"
    /\ definition_argument(_definition, last.name).spec.default = "dflt"
    /\ argument(_definition, _arguments, last.name).result = "None"

\* C3: in every reachable state the `arguments` view has exactly the argument
\* names the current Definition declares as its keys, each mapped to the bound
\* value if the name is bound and to the declared default otherwise; likewise
\* the `options` view over the declared option names; a call of either
\* property returns that view.
C3_ViewsAreTotalOverDeclaredNames ==
    /\ LET view == arguments(_definition, _arguments)
       IN /\ DOMAIN view = ArgumentNames(_definition)
          /\ \A n \in ArgumentNames(_definition) :
                view[n] = IF n \in DOMAIN _arguments THEN _arguments[n]
                          ELSE definition_argument(_definition, n).spec.default
          /\ last.op = "arguments" => last.view = view
    /\ LET view == options(_definition, _options)
       IN /\ DOMAIN view = OptionNames(_definition)
          /\ \A n \in OptionNames(_definition) :
                view[n] = IF n \in DOMAIN _options THEN _options[n]
                          ELSE definition_option(_definition, n).spec.default
          /\ last.op = "options" => last.view = view

\* the `arguments` property was read with one declared name bound to a value
\* that differs from its default and another declared name unbound
C3_Witness ==
    /\ last.op = "arguments"
    /\ \E n \in DOMAIN _arguments :
          _arguments[n] # definition_argument(_definition, n).spec.default
    /\ \E n \in ArgumentNames(_definition) : n \notin DOMAIN _arguments

\* C4: validate() fails exactly when some required argument is not bound; the
\* message of a failure lists every required and unbound argument, each once,
\* no other name, in declaration order, separated by ", ".
C4_ValidateReportsAllMissing ==
    last.op = "validate" =>
        LET missing == RequiredUnbound(_definition, _arguments)
            listed == ListedNames(last.message)
        IN /\ (last.outcome = "RuntimeException") = (missing # {})
           /\ (last.outcome = "ok") = (missing = {})
           /\ last.outcome = "RuntimeException" =>
                /\ Head(last.message) = "Not enough arguments (missing: \""
                /\ last.message[Len(last.message)] = "\")"
                /\ Len(last.message) = 2 * Cardinality(missing) + 1
                /\ Len(listed) = Cardinality(missing)
                /\ {listed[i] : i \in DOMAIN listed} = missing
                /\ \A i, j \in DOMAIN listed :
                      i < j => DeclarationIndex(_definition, listed[i])
                                  < DeclarationIndex(_definition, listed[j])

\* validate() failed on a Definition with three required arguments, none bound
C4_Witness ==
    /\ last.op = "validate" /\ last.outcome = "RuntimeException"
    /\ Cardinality(RequiredUnbound(_definition, _arguments)) = 3
    /\ ListedNames(last.message) = <<"z", "x", "y">>

\* C5: validate() changes no field of the Input; what it returned is what it
\* returns when called again at once; and no step other than a bind or a
\* set_argument changes the outcome (success, or failure with the same list of
\* missing names) of a later validate().
C5_ValidateIsIdempotent ==
    /\ [](last.op = "validate" =>
            LET r == validate(_definition, _arguments)
            IN r.outcome = last.outcome /\ r.message = last.message)
    /\ [][last'.op = "validate" =>
            UNCHANGED <<_definition, _arguments, _options, _interactive, _stream, streams>>]_vars
    /\ [][last'.op \notin {"bind", "set_argument"} =>
            validate(_definition', _arguments') = validate(_definition, _arguments)]_vars

\* validate() failed on an Input with a bound option and a bound argument
C5_Witness ==
    /\ last.op = "validate" /\ last.outcome = "RuntimeException"
    /\ _options # EmptyMap /\ _arguments # EmptyMap

\* the bindings a parse records: each name it set, with the value set last
Recorded(plan, kind) ==
    LET steps == {i \in DOMAIN plan : plan[i].kind = kind}
    IN [n \in {plan[i].name : i \in steps} |->
          plan[CHOOSE i \in steps :
                  plan[i].name = n /\ \A j \in steps : plan[j].name = n => j <= i].value]

\* C6: right after a bind(definition) that completes, on the first bind and on
\* every later one, the Input refers to the given definition and its bound
\* arguments and options are exactly the values the parse strategy recorded
\* during that bind: nothing bound before it is still bound.
C6_BindDiscardsPriorBindings ==
    last.op = "bind" /\ last.outcome = "ok" =>
        /\ _definition = last.definition
        /\ _arguments = Recorded(last.plan, "argument")
        /\ _options = Recorded(last.plan, "option")

\* a bind completed on an Input already used (interactivity switched off, a
\* stream closed through it) and its parse recorded an argument and no option
C6_Witness ==
    /\ last.op = "bind" /\ last.outcome = "ok"
    /\ ~_interactive /\ \E s \in StreamIds : streams[s].closed
    /\ _arguments # EmptyMap /\ _options = EmptyMap

\* C7: with the interactivity toggle off, read and read_line return the
\* caller's default without failing, and leave every stream (position, closed
\* flag) and the stream reference as they were, for every length and default,
\* with no stream set, with a closed stream and with a stream holding data.
C7_NonInteractiveReadShortCircuits ==
    /\ [](last.op \in {"read", "read_line"} /\ ~_interactive =>
            last.outcome = "ok" /\ last.data = last.default)
    /\ [][last'.op \in {"read", "read_line"} /\ ~_interactive =>
            streams' = streams /\ _stream' = _stream]_vars

\* a non-interactive read returned the default "X" while the Input held a
\* closed stream
C7_Witness ==
    /\ last.op = "read" /\ ~_interactive
    /\ last.data = PyStr(<<"X">>)
    /\ _stream # NoStream /\ streams[_stream].closed

\* C8: set_argument / set_option on an undeclared name fail with the
\* unknown-name error and leave both maps as they were; on a declared name
\* they succeed, bind the name to the value (overwriting) and change no other
\* binding of either map.
C8_SettersCheckTheDefinition ==
    [][/\ last'.op = "set_argument" =>
            IF has_argument(_definition, last'.name)
            THEN /\ last'.outcome = "ok"
                 /\ DOMAIN _arguments' = DOMAIN _arguments \cup {last'.name}
                 /\ _arguments'[last'.name] = last'.value
                 /\ \A m \in DOMAIN _arguments \ {last'.name} : _arguments'[m] = _arguments[m]
                 /\ _options' = _options
            ELSE /\ last'.outcome = "ValueException"
                 /\ _arguments' = _arguments /\ _options' = _options
       /\ last'.op = "set_option" =>
            IF has_option(_definition, last'.name)
            THEN /\ last'.outcome = "ok"
                 /\ DOMAIN _options' = DOMAIN _options \cup {last'.name}
                 /\ _options'[last'.name] = last'.value
                 /\ \A m \in DOMAIN _options \ {last'.name} : _options'[m] = _options[m]
                 /\ _arguments' = _arguments
            ELSE /\ last'.outcome = "ValueException"
                 /\ _arguments' = _arguments /\ _options' = _options]_vars

\* set_argument failed on an undeclared name while other arguments were bound
C8_Witness ==
    /\ last.op = "set_argument" /\ last.outcome = "ValueException"
    /\ ~has_argument(_definition, last.name)
    /\ _arguments # EmptyMap

\* C9: for a name n that the Definition declares both as an argument and as an
\* option, set_option(n, v) changes neither argument(n), the `arguments` view
\* nor the outcome of validate(), and set_argument(n, v) changes neither
\* option(n) nor the `options` view.
C9_ArgumentsAndOptionsAreDisjoint ==
    [][(has_argument(_definition, last'.name) /\ has_option(_definition, last'.name)) =>
        /\ last'.op = "set_option" =>
              /\ argument(_definition', _arguments', last'.name)
                    = argument(_definition, _arguments, last'.name)
              /\ arguments(_definition', _arguments') = arguments(_definition, _arguments)
              /\ validate(_definition', _arguments') = validate(_definition, _arguments)
        /\ last'.op = "set_argument" =>
              /\ option(_definition', _options', last'.name)
                    = option(_definition, _options, last'.name)
              /\ options(_definition', _options') = options(_definition, _options)]_vars

\* set_option succeeded on a name that is also a required argument, and the
\* argument is still unbound
C9_Witness ==
    /\ last.op = "set_option" /\ last.outcome = "ok"
    /\ has_argument(_definition, last.name)
    /\ last.name \notin DOMAIN _arguments
    /\ validate(_definition, _arguments).outcome = "RuntimeException"

\* C10: once validate() succeeds it keeps succeeding across every step that is
\* not a bind (set_argument, set_option, interactive, set_stream, read,
\* read_line and the rest): only bind can make validate() fail again.
C10_OnlyBindInvalidates ==
    [][validate(_definition, _arguments).outcome = "ok" /\ last'.op # "bind" =>
        validate(_definition', _arguments').outcome = "ok"]_vars

\* on a valid Input a required argument was set to None, and validate()
\* still succeeds
C10_Witness ==
    /\ last.op = "set_argument" /\ last.outcome = "ok" /\ last.value = "None"
    /\ definition_argument(_definition, last.name).spec.required
    /\ validate(_definition, _arguments).outcome = "ok"

\* C14: a stream becomes closed only in a step that is a close() call, and
\* then only the stream the Input holds at that moment; set_stream leaves the
\* stream it replaces as it was, and bind, validate, the accessors, the
\* setters, interactive, read and read_line close nothing.
C14_OnlyCloseClosesAStream ==
    [][/\ \A s \in StreamIds :
            (streams'[s].closed /\ ~streams[s].closed) =>
                (last'.op = "close" /\ last'.outcome = "ok" /\ _stream = s)
       /\ last'.op = "set_stream" => streams' = streams]_vars

\* set_stream replaced stream 1, which had been read from, by stream 2, and
\* stream 1 is still open
C14_Witness ==
    /\ last.op = "set_stream" /\ _stream = 2
    /\ streams[1].pos > 0 /\ ~streams[1].closed

\* C16: validate() reads the bound arguments only, never the effective value:
\* a required argument that is not bound is listed as missing (and validate
\* fails) even when argument(name) returns its declared default, and a
\* required argument bound to None is not listed.
C16_ValidateLooksAtBindingsOnly ==
    last.op = "validate" =>
        \A i \in DOMAIN _definition.arguments :
            LET a == _definition.arguments[i]
                listed == \E k \in DOMAIN last.message : last.message[k] = a.name
            IN a.required =>
                /\ (a.name \notin DOMAIN _arguments
                        /\ argument(_definition, _arguments, a.name).result # "None")
                      => (last.outcome = "RuntimeException" /\ listed)
                /\ (a.name \in DOMAIN _arguments /\ _arguments[a.name] = "None")
                      => ~listed

\* validate() listed the unbound required `x`, whose default argument(x)
\* returns, and did not list the required `z`, which is bound to None
C16_Witness ==
    /\ last.op = "validate" /\ last.outcome = "RuntimeException"
    /\ _definition = TripleDefinition
    /\ "x" \notin DOMAIN _arguments
    /\ argument(_definition, _arguments, "x").result = "dflt"
    /\ "z" \in DOMAIN _arguments /\ _arguments["z"] = "None"
    /\ ListedNames(last.message) = <<"x", "y">>

\* the first step of a parse plan that names something `d` does not declare,
\* 0 when every step is accepted
FirstFailure(d, plan) ==
    LET bad == {i \in DOMAIN plan :
                   IF plan[i].kind = "argument"
                   THEN ~has_argument(d, plan[i].name)
                   ELSE ~has_option(d, plan[i].name)}
    IN IF bad = {} THEN 0 ELSE CHOOSE i \in bad : \A j \in bad : i <= j

\* C17: the constructor with a Definition binds and then validates: a parse
\* failure surfaces first, otherwise construction fails with the validation
\* error exactly when the parse left a required argument unbound, so a
\* constructed Input never misses a required argument; the constructor without
\* a Definition runs neither the parse nor validate and yields an Input over
\* the empty Definition with nothing bound.
C17_ConstructorBindsThenValidates ==
    last.op = "__init__" =>
        IF last.value = "None"
        THEN /\ last.outcome = "ok" /\ last.plan = <<>>
             /\ _definition = EmptyDefinition
             /\ _arguments = EmptyMap /\ _options = EmptyMap
        ELSE LET k == FirstFailure(last.definition, last.plan)
                 missing == RequiredUnbound(_definition, _arguments)
             IN /\ _definition = last.definition
                /\ k > 0 => last.outcome = "ValueException"
                /\ k = 0 =>
                     /\ _arguments = Recorded(last.plan, "argument")
                     /\ _options = Recorded(last.plan, "option")
                     /\ last.outcome = IF missing = {} THEN "ok" ELSE "RuntimeException"
                     /\ missing # {} =>
                          last.message = validate(_definition, _arguments).message
                /\ Constructed => missing = {}

\* a construction with a Definition whose parse bound an option and left the
\* required `x` unbound: it failed with the validation error
C17_Witness ==
    /\ last.op = "__init__" /\ last.value = "Definition"
    /\ last.definition = GreetDefinition
    /\ last.plan # <<>> /\ FirstFailure(last.definition, last.plan) = 0
    /\ "x" \in DOMAIN _options /\ "x" \notin DOMAIN _arguments
    /\ last.outcome = "RuntimeException"
    /\ ~Constructed

\* C18: when the parse fails during bind(definition), the Input already refers
\* to the new definition, none of its previous bindings is left, and it holds
\* exactly what the parse recorded before the failing step: the state before
\* the bind is not restored.
C18_BindIsNotAtomic ==
    [][(last'.op = "bind" /\ last'.outcome # "ok") =>
          LET k == FirstFailure(last'.definition, last'.plan)
              done == SubSeq(last'.plan, 1, k - 1)
          IN /\ k > 0
             /\ _definition' = last'.definition
             /\ _arguments' = Recorded(done, "argument")
             /\ _options' = Recorded(done, "option")]_vars

\* a bind to the option-less definition failed on its second step: the
\* argument its first step recorded is bound
C18_Witness ==
    /\ last.op = "bind" /\ last.outcome = "ValueException"
    /\ _definition = TripleDefinition
    /\ Len(last.plan) = 2 /\ FirstFailure(last.definition, last.plan) = 2
    /\ _arguments = Recorded(SubSeq(last.plan, 1, 1), "argument")
    /\ "x" \in DOMAIN _arguments
    /\ _options = EmptyMap

\* C19: in every reachable state the accessor and the effective-value view
\* agree on every declared name: argument(n) returns arguments[n] and option(n)
\* returns options[n], bound or not, list argument and flag option included;
\* every accessor call actually made returned the entry of the view.
C19_AccessorAgreesWithView ==
    /\ \A n \in ArgumentNames(_definition) :
          LET r == argument(_definition, _arguments, n)
          IN r.outcome = "ok" /\ r.result = arguments(_definition, _arguments)[n]
    /\ \A n \in OptionNames(_definition) :
          LET r == option(_definition, _options, n)
          IN r.outcome = "ok" /\ r.result = options(_definition, _options)[n]
    /\ (last.op = "argument" /\ last.outcome = "ok") =>
          last.result = arguments(_definition, _arguments)[last.name]
    /\ (last.op = "option" /\ last.outcome = "ok") =>
          last.result = options(_definition, _options)[last.name]

\* option(z) was called for the unbound flag `z` while the list argument `y`
\* is unbound too: it returned the flag's default, the entry of the view
C19_Witness ==
    /\ last.op = "option" /\ last.name = "z" /\ last.outcome = "ok"
    /\ _definition = ListDefinition
    /\ "z" \notin DOMAIN _options /\ "y" \notin DOMAIN _arguments
    /\ last.result = "False"
    /\ options(_definition, _options)["z"] = "False"
    /\ arguments(_definition, _arguments)["y"] = "[]"

\* C20: a bind, completed or failed, changes neither the interactivity toggle
\* nor the stream reference (nor any stream), so interactive(False) and
\* set_stream(s) applied before it are still in effect after it; interactive()
\* and set_stream() change neither the definition nor a bound value.
C20_BindAndOverridesAreIndependent ==
    [][/\ last'.op = "bind" =>
             /\ _interactive' = _interactive
             /\ _stream' = _stream
             /\ streams' = streams
       /\ last'.op \in {"interactive", "set_stream"} =>
             /\ _definition' = _definition
             /\ _arguments' = _arguments
             /\ _options' = _options]_vars

\* a bind that recorded an argument ended on an Input that is non-interactive
\* and reads from an installed stream
C20_Witness ==
    /\ last.op = "bind" /\ last.outcome = "ok"
    /\ _arguments # EmptyMap
    /\ ~_interactive
    /\ _stream # NoStream

\* the places in a call order where `name` was called
Positions(calls, name) == {i \in DOMAIN calls : calls[i].call = name}

\* C11: what the command sees in a call of execute is determined by that
\* call's parameters alone: the tokens and the fresh, unbound Input, the
\* stream, the interactivity, the verbosity and the decoration; a parameter
\* that is omitted leaves the value a fresh harness has, whatever an earlier
\* call passed.
C11_ExecuteCallsAreIndependent ==
    run.op = "execute" =>
        /\ _tokens = Tokenize(prefixed(_command, run.args))
        /\ _definition = EmptyDefinition
        /\ _arguments = EmptyMap /\ _options = EmptyMap
        /\ _stream = run.inputs
        /\ _interactive = (run.interactive # "False")
        /\ _io.verbosity =
              IF run.verbosity = "None" THEN FreshIO.verbosity ELSE run.verbosity
        /\ _io.decorated =
              IF run.decorated = "None" THEN FreshIO.decorated ELSE (run.decorated = "True")

\* C12: the stored status code is absent until the first execute; an execute
\* that returns leaves status_code equal to what the command's run returned
\* and returns that value itself; an execute whose run raises leaves
\* status_code as it was; the status_code property reads the stored value.
C12_StatusCodeFollowsTheRun ==
    /\ [](run.calls = <<>> => _status_code = NoStatus)
    /\ [](run.op = "status_code" => run.returned = _status_code)
    /\ [][run'.op = "execute" =>
             IF run'.outcome = "ok"
             THEN /\ run'.command_returned # NoStatus
                  /\ _status_code' = run'.command_returned
                  /\ run'.returned = run'.command_returned
             ELSE _status_code' = _status_code]_vars

\* a run raised after an earlier call had returned 1: the stored code is still 1
C12_Witness ==
    /\ run.op = "execute" /\ run.outcome = "raised"
    /\ Len(_io.output) = 2
    /\ _status_code = 1

\* C13: in every call of execute the command is run exactly once, as the
\* last step; before it the fresh Input is installed first, the stream is
\* attached next when `inputs` was given (and not otherwise), and each of
\* interactive / verbosity / decorated is applied, with the value passed,
\* exactly when it was not absent: False is applied, None is not.
C13_RunIsLastAfterTheOverrides ==
    run.op = "execute" =>
        LET calls == run.calls
            passed == [interactive |-> run.interactive,
                       set_verbosity |-> run.verbosity,
                       decorated |-> run.decorated]
        IN /\ Positions(calls, "run") = {Len(calls)}
           /\ Positions(calls, "set_input") = {1}
           /\ Positions(calls, "set_stream") = IF run.inputs # NoStream THEN {2} ELSE {}
           /\ run.inputs # NoStream => _stream = run.inputs
           /\ \A o \in DOMAIN passed :
                 IF passed[o] = "None"
                 THEN Positions(calls, o) = {}
                 ELSE \E i \in DOMAIN calls :
                         /\ Positions(calls, o) = {i}
                         /\ calls[i].arg = passed[o]
                         /\ i > 1 /\ i < Len(calls)
                         /\ \A j \in Positions(calls, "set_stream") : j < i
           /\ run.interactive # "None" => _interactive = (run.interactive = "True")
           /\ run.verbosity # "None" => _io.verbosity = run.verbosity
           /\ run.decorated # "None" => _io.decorated = (run.decorated = "True")

\* a call with a stream, interactive=False, decorated=False and no verbosity:
\* five steps, the Input left non-interactive on the stream, after an earlier
\* call had switched the decoration on
C13_Witness ==
    /\ run.op = "execute"
    /\ run.inputs = 1 /\ run.interactive = "False"
    /\ run.decorated = "False" /\ run.verbosity = "None"
    /\ Len(run.calls) = 5
    /\ ~_interactive /\ _stream = 1 /\ ~_io.decorated
    /\ Len(_io.output) = 2

\* the places where a scan of `tokens` may stop on one of `values`
Matches(tokens, values, only_params) ==
    {i \in DOMAIN tokens :
        /\ \E k \in DOMAIN values : Head(tokens[i]) = values[k]
        /\ only_params => \A j \in 1..i : tokens[j] # <<"--">>}

RawQueries == {"has_parameter_option", "parameter_option", "first_argument", "script_name"}

====
